---------------------------- MODULE Spec2Model ----------------------------
(***************************************************************************)
(* A model of strict_variant's recursive_wrapper<T>                        *)
(* (include/strict_variant/recursive_wrapper.hpp) over an explicit heap,   *)
(* of the variant container that stores such wrappers, and of the          *)
(* alternative resolver used by the container's converting operations.     *)
(*                                                                         *)
(* T is std::string throughout (recursive_wrapper<std::string>); a string  *)
(* is the sequence of its characters.                                      *)
(*                                                                         *)
(* Spec   : free sequences of recursive_wrapper operations.                *)
(* SpecR  : the alternative resolver applied to an input type and a list.  *)
(* SpecV  : sequences of operations on variant<int, std::string> or on     *)
(*          variant<int, recursive_wrapper<std::string>> containers.       *)
(***************************************************************************)
EXTENDS Integers, Sequences, FiniteSets, TLC

(* ------------------------------ bounds --------------------------------- *)
\* number of object slots (a wrapper or a container can live in each)
NumWrappers == 2
\* heap capacity: how many allocations can be live at once
MaxAllocs == 2
\* how many strings of StrPool the operations draw their arguments from
NumStrs == 1
\* how many ints of IntPool the operations draw their arguments from
NumInts == 1
\* widths per arithmetic category (rank 1 narrower than rank 2, ...)
MaxRank == 2
\* longest alternative list given to the resolver
MaxAlts == 3

(* --------------------------- program constants ------------------------- *)
\* nullptr
Null == 0

Wrappers == 1..NumWrappers
Addrs == 1..MaxAllocs

\* the string literals of the tutorial ("foo", "bar", "baz") and one more
StrPool ==
  << <<"f","o","o">>, <<"b","a","r">>, <<"b","a","z">>, <<"q","u","x">> >>
Strs == {StrPool[i] : i \in {j \in DOMAIN StrPool : j <= NumStrs}}

\* the value of a default constructed T (new T()): the empty string
DefaultT == << >>

\* the values of T that occur
Values == {DefaultT} \cup Strs

VARIABLES
  alive,    \* alive[w]: a recursive_wrapper object exists in slot w
  m_t,      \* m_t[w]: the wrapper's pointer member (Null or an address)
  val,      \* the heap: val[a] is the T stored at the live allocation a
  dfree,    \* delete was applied to an address that is not allocated
  hops,     \* [news, dels]: the allocations and deallocations of the
            \* last step
  last,     \* the operation executed by the last step: [op, dst, src]
  outcome,  \* how it ended: "ok", "throw", "ub" (undefined behaviour,
            \* execution went on), "crash" (undefined behaviour, fault)
  rU,       \* resolver: the input type U
  rAlts,    \* resolver: the alternative list
  rRes,     \* resolver: the resolution outcome
  vtype,    \* vtype[c]: "none" (no container in slot c), "plain" for
            \* variant<int, string>, "wrapped" for
            \* variant<int, recursive_wrapper<string>>
  which,    \* which[c]: the discriminant
  ival,     \* ival[c]: the int member of the storage (0 when inactive)
  sval,     \* sval[c]: the inline string member ("" when inactive); a
            \* wrapped string lives in wrapper slot c instead
  arg       \* the value the last step was given: [alt, i, s], the
            \* alternative written and its int or string value

varsW == <<alive, m_t, val, dfree, hops, outcome>>
varsR == <<rU, rAlts, rRes>>
varsV == <<vtype, which, ival, sval, arg>>
vars ==
  <<alive, m_t, val, dfree, hops, last, outcome, rU, rAlts, rRes,
    vtype, which, ival, sval, arg>>

(* ------------------------------- heap ---------------------------------- *)
\* an address whose allocation is live: allocated and not yet deleted
Live(a) == a \in DOMAIN val

HeapFull == DOMAIN val = Addrs

\* the address operator new returns: a free one (the lowest: addresses
\* are interchangeable, and a freed address is handed out again)
FreshAddr(h) ==
  CHOOSE a \in Addrs \ DOMAIN h : \A b \in Addrs \ DOMAIN h : a <= b

\* heap h after new T(u) at address a
heap_new(h, a, u) == [x \in DOMAIN h \cup {a} |-> IF x = a THEN u ELSE h[x]]

\* heap h after delete p: the allocation is gone
heap_delete(h, p) == [x \in DOMAIN h \ {p} |-> h[x]]

HeapOps(n, d) == [news |-> n, dels |-> d]

(* ----------------------- recursive_wrapper<T> -------------------------- *)
\* T & get(): *m_t. The set of values a well defined read yields; empty
\* when m_t is null or dangling (the read is undefined behaviour).
get(w) == IF Live(m_t[w]) THEN {val[m_t[w]]} ELSE {}

\* void destroy(): if (m_t) { delete m_t; }   (m_t itself is not reset)
destroy(w) ==
  IF m_t[w] # Null
  THEN /\ val' = heap_delete(val, m_t[w])
       /\ dfree' = (dfree \/ ~Live(m_t[w]))
       /\ hops' = HeapOps(0, 1)
  ELSE /\ val' = val
       /\ dfree' = dfree
       /\ hops' = HeapOps(0, 0)

\* m_t(new T(u)): the constructors that allocate. new may throw (bad_alloc
\* or T's constructor); the new-expression then releases the memory and no
\* wrapper object comes to exist.
rw_new(w, u) ==
  /\ ~HeapFull
  /\ \/ /\ val' = heap_new(val, FreshAddr(val), u)
        /\ m_t' = [m_t EXCEPT ![w] = FreshAddr(val)]
        /\ alive' = [alive EXCEPT ![w] = TRUE]
        /\ hops' = HeapOps(1, 0)
        /\ outcome' = "ok"
        /\ UNCHANGED dfree
     \/ /\ outcome' = "throw"
        /\ hops' = HeapOps(0, 0)
        /\ UNCHANGED <<alive, m_t, val, dfree>>

\* recursive_wrapper() : m_t(new T())
rw_default_ctor(w) == rw_new(w, DefaultT)

\* a value constructor that drops its argument
rw_value_ctor_drop(w, u) == rw_new(w, DefaultT)

\* recursive_wrapper(U && u) : m_t(new T(std::forward<U>(u)))
rw_value_ctor(w, u) == rw_new(w, u)

\* recursive_wrapper(const recursive_wrapper & rhs) : m_t(new T(rhs.get()))
\* Reading an empty rhs is undefined: a fault, or some value is copied.
rw_copy_ctor(w, rhs) ==
  IF get(rhs) # {}
  THEN \E u \in get(rhs) : rw_new(w, u)
  ELSE \/ /\ outcome' = "crash"
          /\ hops' = HeapOps(0, 0)
          /\ UNCHANGED <<alive, m_t, val, dfree>>
       \/ /\ ~HeapFull
          /\ \E u \in Values : val' = heap_new(val, FreshAddr(val), u)
          /\ m_t' = [m_t EXCEPT ![w] = FreshAddr(val)]
          /\ alive' = [alive EXCEPT ![w] = TRUE]
          /\ hops' = HeapOps(1, 0)
          /\ outcome' = "ub"
          /\ UNCHANGED dfree

\* a move constructor that leaves the source's pointer in place
rw_move_ctor_keep(w, rhs) ==
  /\ m_t' = [m_t EXCEPT ![w] = m_t[rhs]]
  /\ alive' = [alive EXCEPT ![w] = TRUE]
  /\ hops' = HeapOps(0, 0)
  /\ outcome' = "ok"
  /\ UNCHANGED <<val, dfree>>

\* recursive_wrapper(recursive_wrapper && rhs) noexcept
\*   : m_t(rhs.m_t) { rhs.m_t = nullptr; }
rw_move_ctor(w, rhs) ==
  /\ m_t' = [m_t EXCEPT ![w] = m_t[rhs], ![rhs] = Null]
  /\ alive' = [alive EXCEPT ![w] = TRUE]
  /\ hops' = HeapOps(0, 0)
  /\ outcome' = "ok"
  /\ UNCHANGED <<val, dfree>>

\* an assign that replaces the pointee: delete m_t; m_t = new T(u)
assign_rebuild(w, us) ==
  /\ Live(m_t[w]) /\ us # {}
  /\ UNCHANGED <<alive, dfree>>
  /\ \/ /\ \E u \in us :
             val' = heap_new(heap_delete(val, m_t[w]),
                             FreshAddr(heap_delete(val, m_t[w])), u)
        /\ m_t' = [m_t EXCEPT ![w] = FreshAddr(heap_delete(val, m_t[w]))]
        /\ hops' = HeapOps(1, 1)
        /\ outcome' = "ok"
     \/ /\ val' = heap_delete(val, m_t[w])
        /\ m_t' = m_t
        /\ hops' = HeapOps(0, 1)
        /\ outcome' = "throw"

\* an assign that gives the pointee up when T's assignment throws
assign_release_on_throw(w, us) ==
  /\ Live(m_t[w]) /\ us # {}
  /\ UNCHANGED <<alive, dfree>>
  /\ \/ /\ \E u \in us : val' = [val EXCEPT ![m_t[w]] = u]
        /\ m_t' = m_t
        /\ hops' = HeapOps(0, 0)
        /\ outcome' = "ok"
     \/ /\ val' = heap_delete(val, m_t[w])
        /\ m_t' = [m_t EXCEPT ![w] = Null]
        /\ hops' = HeapOps(0, 1)
        /\ outcome' = "throw"

\* template <typename U> void assign(U && u) { *m_t = std::forward<U>(u); }
\* us is the set of values a well defined read of u yields (empty: reading
\* u is itself undefined). T's assignment operator may throw, leaving the
\* pointee valid but partially modified. Writing through a null or dangling
\* m_t is undefined: a fault, or nothing observable is stored.
assign(w, us) ==
  /\ UNCHANGED <<alive, m_t, dfree>>
  /\ hops' = HeapOps(0, 0)
  /\ IF Live(m_t[w]) /\ us # {}
     THEN \/ /\ \E u \in us : val' = [val EXCEPT ![m_t[w]] = u]
             /\ outcome' = "ok"
          \/ /\ \E x \in Values : val' = [val EXCEPT ![m_t[w]] = x]
             /\ outcome' = "throw"
     ELSE \/ /\ outcome' = "crash"
             /\ val' = val
          \/ /\ outcome' = "ub"
             /\ IF Live(m_t[w])
                THEN \E x \in Values : val' = [val EXCEPT ![m_t[w]] = x]
                ELSE val' = val

\* operator=(const recursive_wrapper & rhs) { this->assign(rhs.get()); }
rw_copy_assign(w, rhs) == assign(w, get(rhs))

\* a move assignment written as a swap of the two pointers
rw_move_assign_swap(w, rhs) ==
  /\ m_t' = [m_t EXCEPT ![w] = m_t[rhs], ![rhs] = m_t[w]]
  /\ hops' = HeapOps(0, 0)
  /\ outcome' = "ok"
  /\ UNCHANGED <<alive, val, dfree>>

\* operator=(recursive_wrapper && rhs) noexcept
\*   { this->destroy(); m_t = rhs.m_t; rhs.m_t = nullptr; }
\* With &rhs == this the second statement reads the pointer just deleted
\* and the third nulls it.
rw_move_assign(w, rhs) ==
  /\ destroy(w)
  /\ m_t' = [[m_t EXCEPT ![w] = m_t[rhs]] EXCEPT ![rhs] = Null]
  /\ outcome' = "ok"
  /\ UNCHANGED alive

\* operator=(const T & t) { this->assign(t); }
rw_assign_cref(w, t) == assign(w, {t})

\* operator=(T && t) { this->assign(std::move(t)); }
rw_assign_rvalue(w, t) == assign(w, {t})

\* ~recursive_wrapper() noexcept { this->destroy(); }
\* The object's lifetime ends: slot w holds no wrapper any more and its
\* member is normalised to Null.
rw_dtor(w) ==
  /\ destroy(w)
  /\ alive' = [alive EXCEPT ![w] = FALSE]
  /\ m_t' = [m_t EXCEPT ![w] = Null]
  /\ outcome' = "ok"

\* a trait: unwrap_type<T>::type is T, unwrap_type<recursive_wrapper<T>>::type
\* is T. A type is a record [cat, rank, name]; recursive_wrapper<T> is the
\* record [wrapper_of |-> T].
unwrap_type(a) == IF "wrapper_of" \in DOMAIN a THEN a.wrapper_of ELSE a

\* a fault ends the program
Running == outcome # "crash"

Op(name, d, s) == [op |-> name, dst |-> d, src |-> s]

(* ---------------------- alternative resolver --------------------------- *)
\* a type: its category, its width rank within the category and its name
\* among the types of that category and width
Type(c, r) == [cat |-> c, rank |-> r, name |-> "a"]
\* a second type of the same category and width under another name (as
\* long and long long where both are 64 bits wide)
Twin(c, r) == [cat |-> c, rank |-> r, name |-> "b"]
RW(t) == [wrapper_of |-> t]

ArithCats == {"sint", "uint", "float"}
\* the categories that have two types of each width
TwinCats == {"sint"}
\* std::string, a string view, and a class with a converting constructor
\* from a signed integer
ClassCats == {"string", "string_view", "bigint"}

\* bool, const char *, the arithmetic types by width, the class types
Types ==
  {Type("bool", 1), Type("cstr", 1)}
    \cup {Type(c, r) : c \in ArithCats, r \in 1..MaxRank}
    \cup {Twin(c, r) : c \in TwinCats, r \in 1..MaxRank}
    \cup {Type(c, 1) : c \in ClassCats}

\* the class types that also occur wrapped in an alternative list
WrappedCats == {"string"}

\* an alternative is a type or recursive_wrapper of a class type
Alternatives == Types \cup {RW(Type(c, 1)) : c \in WrappedCats}

\* the implicit conversions that are not arithmetic: a string or a
\* string_view from a literal, a string_view from a string, a bigint from
\* a signed integer
ClassConv ==
  { <<"cstr", "string">>, <<"cstr", "string_view">>,
    <<"string", "string_view">>, <<"sint", "bigint">> }

\* the preference tier of constructing alternative type T from a U:
\* 1 exact, 2 same-category conversion to a wider or equal-width type,
\* 3 other implicit conversion, 0 not a candidate (narrowing,
\* cross-category, unrelated). The tiers are defined on unwrapped types: a
\* type still wrapped is in no category.
ConvTier(U, T) ==
  IF T = U THEN 1
  ELSE IF "wrapper_of" \in DOMAIN T THEN 0
  ELSE IF U.cat \in ArithCats /\ T.cat = U.cat /\ T.rank >= U.rank THEN 2
  ELSE IF <<U.cat, T.cat>> \in ClassConv THEN 3
  ELSE 0

Candidates(U, alts, t) ==
  {i \in 1..Len(alts) : ConvTier(U, unwrap_type(alts[i])) = t}

Pending == [status |-> "pending"]
NoMatch == [status |-> "none"]
Ambiguous == [status |-> "ambiguous"]
Unique(i) == [status |-> "unique", index |-> i]

\* a resolver that falls through: it takes the most preferred tier that
\* holds exactly one candidate and skips an ambiguous tier above it
resolve_fall_through(U, alts) ==
  LET single == {t \in 1..3 : Cardinality(Candidates(U, alts, t)) = 1}
  IN  IF single # {}
      THEN LET best == CHOOSE t \in single : \A t2 \in single : t <= t2
           IN  Unique((CHOOSE i \in Candidates(U, alts, best) : TRUE) - 1)
      ELSE IF \A t \in 1..3 : Candidates(U, alts, t) = {} THEN NoMatch
      ELSE Ambiguous

\* the resolver: the single candidate of the most preferred non-empty
\* tier (as a 0-based index), or failure
resolve(U, alts) ==
  LET tiers == {t \in 1..3 : Candidates(U, alts, t) # {}}
  IN  IF tiers = {} THEN NoMatch
      ELSE LET best == CHOOSE t \in tiers : \A t2 \in tiers : t <= t2
               c == Candidates(U, alts, best)
           IN  IF Cardinality(c) = 1
               THEN Unique((CHOOSE i \in c : TRUE) - 1)
               ELSE Ambiguous

\* the alternative lists a container type may be defined over: no type
\* twice after unwrapping
AltLists ==
  UNION { { l \in [1..n -> Alternatives] :
              \A i, j \in 1..n :
                 i # j => unwrap_type(l[i]) # unwrap_type(l[j]) }
          : n \in 1..MaxAlts }

(* ------------------------- variant container --------------------------- *)
\* the int literals: a negative two-digit one, the tutorial's 5 and 6, a
\* longer one
IntPool == <<-12, 5, 6, 120>>
Ints == {IntPool[i] : i \in {j \in DOMAIN IntPool : j <= NumInts}}
\* the value of a default constructed int alternative
DefaultInt == 0

IntT == Type("sint", 1)
StringT == Type("string", 1)
CStrT == Type("cstr", 1)

\* container slot c stores its wrapper, when it holds one, in wrapper slot c
Variants == Wrappers
VTypes == {"plain", "wrapped"}
VariantAlts(vt) ==
  IF vt = "wrapped" THEN <<IntT, RW(StringT)>> ELSE <<IntT, StringT>>

\* a run instantiates one of the two container types (containers of
\* different types never interact)
OneType(vt) == \A c \in Variants : vtype[c] \in {"none", vt}

\* the argument of a step: alternative a written with the int n or the
\* string str; NoArg for a step that is given no value
Arg(a, n, str) == [alt |-> a, i |-> n, s |-> str]
NoArg == Arg(0, 0, << >>)
ValueArg(idx, v) == IF idx = 0 THEN Arg(0, v, << >>) ELSE Arg(1, 0, v)

\* the active alternative of c is stored as a recursive_wrapper
HoldsWrapper(c) ==
  /\ vtype[c] # "none"
  /\ "wrapper_of" \in DOMAIN VariantAlts(vtype[c])[which[c] + 1]

\* how an argument is passed: the reference overload resolution binds
ValueCats == {"lvalue", "const_lvalue", "rvalue", "const_rvalue"}

\* what a pierce returns: a reference to a value x, or to the wrapper in
\* slot c when the argument comes back as it was passed
Pierced(x) == [value |-> x]
Unpierced(c) == [wrapper |-> c]
IsPierced(r) == "value" \in DOMAIN r

\* a pierce that yields a fresh T instead of the wrapper's pointee
pierce_lost(c, cat) ==
  IF HoldsWrapper(c) THEN {Pierced(DefaultT)}
  ELSE IF which[c] = 0 THEN {Pierced(ival[c])} ELSE {Pierced(sval[c])}

\* detail::pierce_recursive_wrapper on the active member of c's storage,
\* passed in value category cat. A bare value is returned as it is
\* (T &, T &&, const T &). A wrapper yields t.get() when it is passed as
\* an lvalue (recursive_wrapper<T> &), a const lvalue
\* (const recursive_wrapper<T> &) or an rvalue (recursive_wrapper<T> &&,
\* std::move(t.get())); there is no overload for a const rvalue wrapper,
\* which binds the generic T && with T = const recursive_wrapper<U> and
\* comes back as it was passed: the wrapper, not its pointee.
pierce_recursive_wrapper(c, cat) ==
  IF HoldsWrapper(c)
  THEN IF cat = "const_rvalue"
       THEN {Unpierced(c)}
       ELSE {Pierced(x) : x \in get(c)}
  ELSE IF which[c] = 0 THEN {Pierced(ival[c])} ELSE {Pierced(sval[c])}

\* the category in which the storage of a container visited in category
\* cat hands out its active member: the accessor has the three
\* qualifications of the wrapper's get() (mutable lvalue, const lvalue,
\* rvalue), and a const rvalue container binds the const lvalue one
member_category(cat) ==
  IF cat = "const_rvalue" THEN "const_lvalue" ELSE cat

\* get<T>(&v), v a mutable lvalue: the set of results a well defined call
\* yields; << >> is nullptr, <<x>> a pointer to the stored x
v_get(c, T) ==
  IF unwrap_type(VariantAlts(vtype[c])[which[c] + 1]) # T
  THEN {<< >>}
  ELSE {<<r.value>> : r \in pierce_recursive_wrapper(c, "lvalue")}

(* formatter of the tutorial *)
Digits == <<"0", "1", "2", "3", "4", "5", "6", "7", "8", "9">>

RECURSIVE nat_to_string(_)
nat_to_string(n) ==
  IF n < 10 THEN <<Digits[n + 1]>>
  ELSE nat_to_string(n \div 10) \o <<Digits[(n % 10) + 1]>>

\* std::to_string(int)
to_string(i) ==
  IF i < 0 THEN <<"-">> \o nat_to_string(-i) ELSE nat_to_string(i)

\* std::string operator()(const std::string & s) const { return s; }
formatter_string(x) == x

\* std::string operator()(int i) const
\*   { return "[" + std::to_string(i) + "]"; }
formatter_int(i) == <<"[">> \o to_string(i) \o <<"]">>

\* overload resolution on the (unwrapped) alternative type
formatter(T, x) ==
  IF T = IntT
  THEN [branch |-> "int", out |-> formatter_int(x)]
  ELSE [branch |-> "string", out |-> formatter_string(x)]

\* the formatter has no operator() taking a recursive_wrapper: a call with
\* an unpierced wrapper runs no branch
NotInvocable == [branch |-> "none", out |-> << >>]

\* apply_visitor(formatter{}, v), v passed in value category cat: the
\* branch of the active alternative on the pierced member. The set of
\* results a well defined call yields (piercing an emptied wrapper is
\* undefined); the call changes nothing.
apply_visitor(c, cat) ==
  LET T == unwrap_type(VariantAlts(vtype[c])[which[c] + 1])
  IN  { IF IsPierced(r) THEN formatter(T, r.value) ELSE NotInvocable :
          r \in pierce_recursive_wrapper(c, member_category(cat)) }

(* container operations *)
NoWrapperOp ==
  /\ outcome' = "ok"
  /\ hops' = HeapOps(0, 0)
  /\ UNCHANGED <<alive, m_t, val, dfree>>

Completed == outcome' \in {"ok", "ub"}

SetV(c, vt, idx, n, str) ==
  /\ vtype' = [vtype EXCEPT ![c] = vt]
  /\ which' = [which EXCEPT ![c] = idx]
  /\ ival' = [ival EXCEPT ![c] = n]
  /\ sval' = [sval EXCEPT ![c] = str]

KeepV == UNCHANGED <<vtype, which, ival, sval>>

\* a wrapper holding v replaces the wrapper in slot c: the new value is
\* allocated first, then the old wrapper is destroyed and the new pointer
\* moved in (a failed allocation leaves the container as it was)
rw_replace(c, v) ==
  /\ ~HeapFull
  /\ \/ /\ val' = heap_delete(heap_new(val, FreshAddr(val), v), m_t[c])
        /\ m_t' = [m_t EXCEPT ![c] = FreshAddr(val)]
        /\ hops' = HeapOps(1, IF m_t[c] # Null THEN 1 ELSE 0)
        /\ dfree' = (dfree \/ (m_t[c] # Null /\ ~Live(m_t[c])))
        /\ outcome' = "ok"
        /\ UNCHANGED alive
     \/ /\ outcome' = "throw"
        /\ hops' = HeapOps(0, 0)
        /\ UNCHANGED <<alive, m_t, val, dfree>>

\* destroy-active
destroy_active(c) == IF HoldsWrapper(c) THEN rw_dtor(c) ELSE NoWrapperOp

\* destroy the active alternative of the container of type vt in slot c
\* (if there is one) and construct alternative idx from v
construct_alternative(c, vt, idx, v) ==
  IF idx = 0
  THEN /\ destroy_active(c)
       /\ SetV(c, vt, 0, v, << >>)
  ELSE IF vt = "plain"
  THEN /\ NoWrapperOp
       /\ SetV(c, vt, 1, DefaultInt, v)
  ELSE /\ IF HoldsWrapper(c) THEN rw_replace(c, v) ELSE rw_value_ctor(c, v)
       /\ IF Completed
          THEN SetV(c, vt, 1, DefaultInt, << >>)
          ELSE KeepV

\* variant(): the first alternative, default constructed
VDefaultCtor(c, vt) ==
  /\ Running /\ vtype[c] = "none" /\ OneType(vt)
  /\ NoWrapperOp
  /\ SetV(c, vt, 0, DefaultInt, << >>)
  /\ arg' = NoArg
  /\ last' = Op("v_default_ctor", c, 0)
  /\ UNCHANGED varsR

\* variant(U && u): the resolver names the alternative
VCtorFrom(c, vt, U, v) ==
  /\ Running /\ vtype[c] = "none" /\ OneType(vt)
  /\ LET r == resolve(U, VariantAlts(vt))
     IN  /\ r.status = "unique"
         /\ construct_alternative(c, vt, r.index, v)
         /\ arg' = ValueArg(r.index, v)
  /\ last' = Op("v_ctor_from", c, 0)
  /\ UNCHANGED varsR

\* v = u: assigned in place when the resolved alternative is the active
\* one, otherwise the active one is destroyed and the new one constructed
VAssignFrom(c, U, v) ==
  /\ Running /\ vtype[c] # "none"
  /\ LET r == resolve(U, VariantAlts(vtype[c]))
     IN  /\ r.status = "unique"
         /\ IF r.index = which[c] /\ HoldsWrapper(c)
            THEN /\ rw_assign_rvalue(c, v)
                 /\ KeepV
            ELSE construct_alternative(c, vtype[c], r.index, v)
         /\ arg' = ValueArg(r.index, v)
  /\ last' = Op("v_assign_from", c, 0)
  /\ UNCHANGED varsR

\* v.emplace<T>(args): the named alternative, no resolution
VEmplace(c, idx, v) ==
  /\ Running /\ vtype[c] # "none"
  /\ construct_alternative(c, vtype[c], idx, v)
  /\ arg' = ValueArg(idx, v)
  /\ last' = Op("v_emplace", c, 0)
  /\ UNCHANGED varsR

\* variant(const variant & rhs)
VCopyCtor(c, rhs) ==
  /\ Running /\ vtype[c] = "none" /\ vtype[rhs] # "none"
  /\ IF HoldsWrapper(rhs) THEN rw_copy_ctor(c, rhs) ELSE NoWrapperOp
  /\ IF Completed
     THEN SetV(c, vtype[rhs], which[rhs], ival[rhs], sval[rhs])
     ELSE KeepV
  /\ arg' = NoArg
  /\ last' = Op("v_copy_ctor", c, rhs)
  /\ UNCHANGED varsR

\* what a moved-from std::string may hold: valid but unspecified
MovedFromString(str) == {str, << >>}

\* variant(variant && rhs): the active alternative's move constructor;
\* the discriminant is copied and the source keeps its alternative
VMoveCtor(c, rhs) ==
  /\ Running /\ vtype[c] = "none" /\ vtype[rhs] # "none"
  /\ IF HoldsWrapper(rhs) THEN rw_move_ctor(c, rhs) ELSE NoWrapperOp
  /\ vtype' = [vtype EXCEPT ![c] = vtype[rhs]]
  /\ which' = [which EXCEPT ![c] = which[rhs]]
  /\ ival' = [ival EXCEPT ![c] = ival[rhs]]
  /\ \E left \in MovedFromString(sval[rhs]) :
        sval' = [sval EXCEPT ![c] = sval[rhs], ![rhs] = left]
  /\ arg' = NoArg
  /\ last' = Op("v_move_ctor", c, rhs)
  /\ UNCHANGED varsR

\* v = rhs (copy): in place when both hold the same alternative,
\* otherwise the active alternative is destroyed and rhs's one copy
\* constructed
VCopyAssign(c, rhs) ==
  /\ Running /\ c # rhs
  /\ vtype[c] # "none" /\ vtype[rhs] = vtype[c]
  /\ IF which[c] = which[rhs]
     THEN /\ IF HoldsWrapper(c) THEN rw_copy_assign(c, rhs) ELSE NoWrapperOp
          /\ IF outcome' = "crash"
             THEN KeepV
             ELSE SetV(c, vtype[c], which[c], ival[rhs], sval[rhs])
     ELSE IF which[rhs] = 0
     THEN /\ destroy_active(c)
          /\ SetV(c, vtype[c], 0, ival[rhs], << >>)
     ELSE /\ IF HoldsWrapper(rhs) THEN rw_copy_ctor(c, rhs) ELSE NoWrapperOp
          /\ IF Completed
             THEN SetV(c, vtype[c], 1, DefaultInt, sval[rhs])
             ELSE KeepV
  /\ arg' = NoArg
  /\ last' = Op("v_copy_assign", c, rhs)
  /\ UNCHANGED varsR

\* v = std::move(rhs): in place when both hold the same alternative,
\* otherwise the active alternative is destroyed and rhs's one move
\* constructed
VMoveAssign(c, rhs) ==
  /\ Running /\ c # rhs
  /\ vtype[c] # "none" /\ vtype[rhs] = vtype[c]
  /\ IF which[c] = which[rhs]
     THEN IF HoldsWrapper(c) THEN rw_move_assign(c, rhs) ELSE NoWrapperOp
     ELSE IF which[rhs] = 0
     THEN destroy_active(c)
     ELSE IF HoldsWrapper(rhs) THEN rw_move_ctor(c, rhs) ELSE NoWrapperOp
  /\ UNCHANGED vtype
  /\ which' = [which EXCEPT ![c] = which[rhs]]
  /\ ival' = [ival EXCEPT ![c] = ival[rhs]]
  /\ \E left \in MovedFromString(sval[rhs]) :
        sval' = [sval EXCEPT ![c] = sval[rhs], ![rhs] = left]
  /\ arg' = NoArg
  /\ last' = Op("v_move_assign", c, rhs)
  /\ UNCHANGED varsR

\* ~variant(): destroy-active
VDtor(c) ==
  /\ Running /\ vtype[c] # "none"
  /\ destroy_active(c)
  /\ SetV(c, "none", 0, DefaultInt, << >>)
  /\ arg' = NoArg
  /\ last' = Op("v_dtor", c, 0)
  /\ UNCHANGED varsR

(* ------------------- Spec: sequences of wrapper operations ------------- *)
Init ==
  /\ alive = [w \in Wrappers |-> FALSE]
  /\ m_t = [w \in Wrappers |-> Null]
  /\ val = << >>
  /\ dfree = FALSE
  /\ hops = HeapOps(0, 0)
  /\ last = Op("init", 0, 0)
  /\ outcome = "ok"
  /\ rU = Type("sint", 1)
  /\ rAlts = << >>
  /\ rRes = Pending
  /\ vtype = [c \in Variants |-> "none"]
  /\ which = [c \in Variants |-> 0]
  /\ ival = [c \in Variants |-> DefaultInt]
  /\ sval = [c \in Variants |-> << >>]
  /\ arg = NoArg

DefaultCtor(w) ==
  /\ Running /\ ~alive[w]
  /\ rw_default_ctor(w)
  /\ last' = Op("default_ctor", w, 0)
  /\ UNCHANGED <<varsR, varsV>>

ValueCtor(w, u) ==
  /\ Running /\ ~alive[w]
  /\ rw_value_ctor(w, u)
  /\ last' = Op("value_ctor", w, 0)
  /\ UNCHANGED <<varsR, varsV>>

CopyCtor(w, rhs) ==
  /\ Running /\ ~alive[w] /\ alive[rhs]
  /\ rw_copy_ctor(w, rhs)
  /\ last' = Op("copy_ctor", w, rhs)
  /\ UNCHANGED <<varsR, varsV>>

MoveCtor(w, rhs) ==
  /\ Running /\ ~alive[w] /\ alive[rhs]
  /\ rw_move_ctor(w, rhs)
  /\ last' = Op("move_ctor", w, rhs)
  /\ UNCHANGED <<varsR, varsV>>

CopyAssign(w, rhs) ==
  /\ Running /\ alive[w] /\ alive[rhs]
  /\ rw_copy_assign(w, rhs)
  /\ last' = Op("copy_assign", w, rhs)
  /\ UNCHANGED <<varsR, varsV>>

MoveAssign(w, rhs) ==
  /\ Running /\ alive[w] /\ alive[rhs]
  /\ rw_move_assign(w, rhs)
  /\ last' = Op("move_assign", w, rhs)
  /\ UNCHANGED <<varsR, varsV>>

AssignCRef(w, t) ==
  /\ Running /\ alive[w]
  /\ rw_assign_cref(w, t)
  /\ last' = Op("assign_cref", w, 0)
  /\ UNCHANGED <<varsR, varsV>>

AssignRvalue(w, t) ==
  /\ Running /\ alive[w]
  /\ rw_assign_rvalue(w, t)
  /\ last' = Op("assign_rvalue", w, 0)
  /\ UNCHANGED <<varsR, varsV>>

Dtor(w) ==
  /\ Running /\ alive[w]
  /\ rw_dtor(w)
  /\ last' = Op("dtor", w, 0)
  /\ UNCHANGED <<varsR, varsV>>

Next ==
  \/ \E w \in Wrappers : DefaultCtor(w)
  \/ \E w \in Wrappers, u \in Values : ValueCtor(w, u)
  \/ \E w, rhs \in Wrappers : CopyCtor(w, rhs)
  \/ \E w, rhs \in Wrappers : MoveCtor(w, rhs)
  \/ \E w, rhs \in Wrappers : CopyAssign(w, rhs)
  \/ \E w, rhs \in Wrappers : MoveAssign(w, rhs)
  \/ \E w \in Wrappers, t \in Values : AssignCRef(w, t)
  \/ \E w \in Wrappers, t \in Values : AssignRvalue(w, t)
  \/ \E w \in Wrappers : Dtor(w)

Spec == Init /\ [][Next]_vars

(* ------------------- SpecV: sequences of container operations ---------- *)
NextV ==
  \/ \E c \in Variants, vt \in VTypes : VDefaultCtor(c, vt)
  \/ \E c \in Variants, vt \in VTypes, n \in Ints : VCtorFrom(c, vt, IntT, n)
  \/ \E c \in Variants, vt \in VTypes, str \in Strs : VCtorFrom(c, vt, CStrT, str)
  \/ \E c \in Variants, n \in Ints : VAssignFrom(c, IntT, n)
  \/ \E c \in Variants, str \in Strs : VAssignFrom(c, CStrT, str)
  \/ \E c \in Variants, n \in Ints : VEmplace(c, 0, n)
  \/ \E c \in Variants, str \in Strs : VEmplace(c, 1, str)
  \/ \E c, rhs \in Variants : VCopyCtor(c, rhs)
  \/ \E c, rhs \in Variants : VMoveCtor(c, rhs)
  \/ \E c, rhs \in Variants : VCopyAssign(c, rhs)
  \/ \E c, rhs \in Variants : VMoveAssign(c, rhs)
  \/ \E c \in Variants : VDtor(c)

SpecV == Init /\ [][NextV]_vars

(* --------------------- SpecR: the resolver applied --------------------- *)
InitR ==
  /\ alive = [w \in Wrappers |-> FALSE]
  /\ m_t = [w \in Wrappers |-> Null]
  /\ val = << >>
  /\ dfree = FALSE
  /\ hops = HeapOps(0, 0)
  /\ last = Op("init", 0, 0)
  /\ outcome = "ok"
  /\ rU \in Types
  /\ rAlts \in AltLists
  /\ rRes = Pending
  /\ vtype = [c \in Variants |-> "none"]
  /\ which = [c \in Variants |-> 0]
  /\ ival = [c \in Variants |-> DefaultInt]
  /\ sval = [c \in Variants |-> << >>]
  /\ arg = NoArg

Resolve ==
  /\ rRes = Pending
  /\ rRes' = resolve(rU, rAlts)
  /\ last' = Op("resolve", 0, 0)
  /\ UNCHANGED <<varsW, rU, rAlts, varsV>>

NextR == Resolve

SpecR == InitR /\ [][NextR]_vars

(* ------------------------- claims on the wrapper ----------------------- *)
AssignOps == {"copy_assign", "move_assign", "assign_cref", "assign_rvalue"}
FromWrapperOps == {"copy_assign", "move_assign", "copy_ctor", "move_ctor"}

\* the step's source operand, when it has one, owns a value before the step
SrcOwns == (last'.op \in FromWrapperOps) => Live(m_t[last'.src])

\* C3 (as claimed): a wrapper left empty by a move can be reassigned by
\* each of the four assignment operators (from a source that owns a value):
\* the assignment completes without undefined behaviour and leaves the
\* wrapper owning a live allocation; and destroying it frees nothing.
C3_Claim ==
  [][ /\ ( /\ last'.op \in AssignOps
           /\ m_t[last'.dst] = Null
           /\ SrcOwns )
         => /\ outcome' = "ok"
            /\ m_t'[last'.dst] \in DOMAIN val'
      /\ ( last'.op = "dtor" /\ m_t[last'.dst] = Null )
         => hops' = HeapOps(0, 0) /\ val' = val
    ]_vars

\* C4 (as claimed): reassigning a wrapper that owns a value, by copy or by
\* move from another wrapper or from a bare value, keeps the wrapper's
\* allocation and neither allocates nor deallocates.
C4_Claim ==
  [][ ( /\ last'.op \in AssignOps
        /\ Live(m_t[last'.dst])
        /\ SrcOwns /\ last'.dst # last'.src )
      => /\ m_t'[last'.dst] = m_t[last'.dst]
         /\ hops' = HeapOps(0, 0)
         /\ DOMAIN val' = DOMAIN val
    ]_vars

\* C4 (amended): reassigning a wrapper that owns a value by copy assignment
\* from another wrapper that owns a value, or from a bare value (const T &
\* or T &&), assigns through the existing pointee: same allocation before
\* and after, no allocation, no deallocation, and on success the pointee
\* holds the assigned value.
C4_AssignThroughPointee ==
  [][ ( /\ last'.op \in AssignOps \ {"move_assign"}
        /\ Live(m_t[last'.dst])
        /\ SrcOwns /\ last'.dst # last'.src )
      => /\ m_t'[last'.dst] = m_t[last'.dst]
         /\ hops' = HeapOps(0, 0)
         /\ DOMAIN val' = DOMAIN val
         /\ ( outcome' = "ok" /\ last'.op = "copy_assign" )
              => val'[m_t[last'.dst]] = val[m_t[last'.src]]
    ]_vars

C4_Witness ==
  /\ last.op = "copy_assign" /\ outcome = "ok"
  /\ last.dst # last.src
  /\ Live(m_t[last.dst]) /\ Live(m_t[last.src])
  /\ m_t[last.dst] # m_t[last.src]
  /\ val[m_t[last.dst]] = StrPool[1]

\* C5: over any sequence of wrapper constructions, assignments and
\* destructions every allocation is freed exactly once: delete is never
\* applied to a freed allocation, every live wrapper that holds a pointer
\* holds a live allocation that no other live wrapper holds, every live
\* allocation is held by a live wrapper (so none is left once all wrappers
\* are destroyed); destroying a wrapper that a move left empty frees
\* nothing.
C5_StateInv ==
  /\ ~dfree
  /\ \A w \in Wrappers : (alive[w] /\ m_t[w] # Null) => Live(m_t[w])
  /\ \A w1, w2 \in Wrappers :
        (alive[w1] /\ alive[w2] /\ w1 # w2 /\ m_t[w1] # Null)
           => m_t[w1] # m_t[w2]
  /\ \A a \in DOMAIN val : \E w \in Wrappers : alive[w] /\ m_t[w] = a
  /\ (\A w \in Wrappers : ~alive[w]) => DOMAIN val = {}

C5_FreedExactlyOnce ==
  /\ []C5_StateInv
  /\ [][ ( last'.op = "dtor" /\ m_t[last'.dst] = Null )
         => hops' = HeapOps(0, 0) /\ val' = val ]_vars

\* the last wrapper destroyed was empty (a move had emptied it) and the
\* allocation it once made is gone as well
C5_Witness ==
  /\ last.op = "dtor" /\ hops = HeapOps(0, 0)
  /\ \A w \in Wrappers : ~alive[w]
  /\ DOMAIN val = {}

\* C6: moving a wrapper (move construction, move assignment between two
\* distinct wrappers) transfers the pointer: the destination then holds
\* exactly the allocation the source held, its value unchanged, the source
\* holds none, and nothing was allocated.
C6_MoveTransfersPointer ==
  [][ ( /\ last'.op \in {"move_ctor", "move_assign"}
        /\ last'.dst # last'.src )
      => /\ m_t'[last'.dst] = m_t[last'.src]
         /\ m_t'[last'.src] = Null
         /\ hops'.news = 0
         /\ Live(m_t[last'.src])
              => /\ m_t[last'.src] \in DOMAIN val'
                 /\ val'[m_t[last'.src]] = val[m_t[last'.src]]
    ]_vars

C6_Witness ==
  /\ last.op = "move_assign" /\ last.dst # last.src
  /\ Live(m_t[last.dst]) /\ m_t[last.src] = Null
  /\ hops = HeapOps(0, 1)

\* C7: when T's assignment operator throws during an assignment from
\* another wrapper or from a bare value, the wrapper still owns its
\* original, live allocation: no pointer changed, nothing was freed or
\* allocated, and the source's ownership is unchanged.
C7_ThrowKeepsOwnership ==
  [][ ( last'.op \in AssignOps /\ outcome' = "throw" )
      => /\ m_t' = m_t
         /\ alive' = alive
         /\ hops' = HeapOps(0, 0)
         /\ dfree' = dfree
         /\ DOMAIN val' = DOMAIN val
         /\ m_t'[last'.dst] \in DOMAIN val'
    ]_vars

C7_Witness ==
  /\ last.op = "copy_assign" /\ outcome = "throw"
  /\ last.dst # last.src
  /\ Live(m_t[last.dst]) /\ Live(m_t[last.src])
  /\ val[m_t[last.dst]] # val[m_t[last.src]]

\* C10 (as claimed): move assignment from a source that owns a value
\* leaves the destination owning a live allocation holding the value the
\* source held, also when source and destination are the same object.
C10_Claim ==
  [][ ( last'.op = "move_assign" /\ Live(m_t[last'.src]) )
      => /\ m_t'[last'.dst] \in DOMAIN val'
         /\ val'[m_t'[last'.dst]] = val[m_t[last'.src]]
    ]_vars

(* ------------------------ claims on the resolver ----------------------- *)
\* the type alternative i stands for: T for T and for recursive_wrapper<T>
RAltType(i) ==
  IF "wrapper_of" \in DOMAIN rAlts[i] THEN rAlts[i].wrapper_of ELSE rAlts[i]
\* the tiers as the claim words them, for input type rU and alternative i
RArith(t) == t.cat \in {"sint", "uint", "float"}
RExact(i) == RAltType(i) = rU
RWidening(i) ==
  /\ ~RExact(i)
  /\ RArith(rU) /\ RAltType(i).cat = rU.cat
  /\ ~(RAltType(i).rank < rU.rank)
ROther(i) ==
  /\ ~RExact(i) /\ ~RWidening(i)
  /\ \/ rU.cat = "cstr" /\ RAltType(i).cat \in {"string", "string_view"}
     \/ rU.cat = "string" /\ RAltType(i).cat = "string_view"
     \/ rU.cat = "sint" /\ RAltType(i).cat = "bigint"
RTier(i) ==
  IF RExact(i) THEN 1 ELSE IF RWidening(i) THEN 2 ELSE IF ROther(i) THEN 3
  ELSE 0
RIdx == 1..Len(rAlts)
\* C2: the resolver classifies the alternatives (after unwrapping) into the
\* tiers exact match, same-category non-narrowing widening and other
\* implicit conversion; it returns the index of the single candidate of
\* the most preferred non-empty tier; it fails as ambiguous exactly when
\* that tier holds more than one candidate, whatever a lower tier or the
\* source order offers; it fails with no match exactly when no tier holds
\* a candidate; an arithmetic alternative of another category, or a
\* narrower one, is never returned.
C2_ResolverTiers ==
  rRes # Pending =>
    LET tier == [i \in RIdx |-> RTier(i)]
        \* the most preferred tier that holds a candidate (0: none does)
        best == IF \E i \in RIdx : tier[i] = 1 THEN 1
                ELSE IF \E i \in RIdx : tier[i] = 2 THEN 2
                ELSE IF \E i \in RIdx : tier[i] = 3 THEN 3
                ELSE 0
        top == {i \in RIdx : tier[i] = best}
    IN  /\ rRes.status \in {"unique", "ambiguous", "none"}
        /\ (rRes.status = "none") = (best = 0)
        /\ (rRes.status = "ambiguous") = (best # 0 /\ Cardinality(top) > 1)
        /\ (rRes.status = "unique") = (best # 0 /\ Cardinality(top) = 1)
        /\ rRes.status = "unique" =>
             LET k == rRes.index + 1
             IN  /\ top = {k}
                 /\ ( RArith(RAltType(k)) \/ RAltType(k).cat = "bool" ) =>
                      /\ RAltType(k).cat = rU.cat
                      /\ RAltType(k).rank >= rU.rank

\* the widening tier is ambiguous (a wider type and an equal-width type
\* of another name are both candidates) and resolution fails although the
\* alternative listed first is the only candidate of the tier below
C2_Witness ==
  /\ rRes = Ambiguous
  /\ Len(rAlts) = 3
  /\ RTier(1) = 3 /\ RTier(2) = 2 /\ RTier(3) = 2
  /\ RAltType(2).rank > rU.rank /\ RAltType(3).rank = rU.rank

(* ----------------------- claims on the container ----------------------- *)
WriteOps == {"v_ctor_from", "v_assign_from", "v_emplace"}
MoveOps == {"v_move_ctor", "v_move_assign"}
ReassignOps == {"v_assign_from", "v_emplace", "v_copy_assign", "v_move_assign"}

Exists(c) == vtype[c] # "none"
IsNullPtr(r) == r = {<< >>}

\* in every state each container has one active alternative, in range, and
\* get<T> is non-null for exactly one alternative type T of the list
C1_OneActive ==
  \A c \in Variants :
     Exists(c) =>
       /\ which[c] \in 0..(Len(VariantAlts(vtype[c])) - 1)
       /\ IsNullPtr(v_get(c, IntT)) # IsNullPtr(v_get(c, StringT))
       /\ IsNullPtr(v_get(c, IntT)) = (which[c] # 0)

\* C1: over any sequence of container operations, after every step each
\* container has exactly one active alternative with its index in [0, n);
\* after a default construction it is alternative 0 holding a default int;
\* after a converting construction, converting assignment or emplace that
\* completed, the discriminant is the index of the alternative written,
\* get<T> for that alternative's type points to a value equal to the value
\* written and get<U> is null for the other alternative; and a step leaves
\* the containers it does not operate on as they were (discriminant,
\* members and a wrapper's pointee, which are all that get<T> reads).
C1_ExactlyOneActive ==
  /\ []C1_OneActive
  /\ [][ /\ \A c \in Variants :
               ( c = last'.dst /\ last'.op \in WriteOps /\ outcome' = "ok" )
               => /\ Exists(c)'
                  /\ which'[c] = arg'.alt
                  /\ IF arg'.alt = 0
                     THEN /\ v_get(c, IntT)' = {<<arg'.i>>}
                          /\ v_get(c, StringT)' = {<< >>}
                     ELSE /\ v_get(c, StringT)' = {<<arg'.s>>}
                          /\ v_get(c, IntT)' = {<< >>}
         /\ \A c \in Variants :
               ( c = last'.dst /\ last'.op = "v_default_ctor" )
               => /\ Exists(c)'
                  /\ which'[c] = 0
                  /\ v_get(c, IntT)' = {<<0>>}
                  /\ v_get(c, StringT)' = {<< >>}
         /\ \A c \in Variants :
               ( c # last'.dst /\ c # last'.src )
               => /\ vtype'[c] = vtype[c]
                  /\ which'[c] = which[c]
                  /\ ival'[c] = ival[c]
                  /\ sval'[c] = sval[c]
                  /\ m_t'[c] = m_t[c]
                  /\ Live(m_t[c])
                       => Live(m_t[c])' /\ val'[m_t[c]] = val[m_t[c]]
       ]_vars

\* a container of wrapped alternatives that held an int was assigned a
\* string literal: the string alternative is active, get<std::string>
\* points to the literal's text and get<int> is null
C1_Witness ==
  /\ last.op = "v_assign_from" /\ outcome = "ok"
  /\ hops = HeapOps(1, 0)
  /\ vtype[last.dst] = "wrapped" /\ which[last.dst] = 1
  /\ v_get(last.dst, StringT) = {<<StrPool[1]>>}
  /\ v_get(last.dst, IntT) = {<< >>}

\* C8 (as claimed): a move out of a container (move construction or move
\* assignment) completes and leaves the source's type and discriminant as
\* they were; and the next operation, when it destroys the moved-from
\* source or reassigns it (converting assignment, emplace, copy or move
\* assignment from a container holding a value), ends without a fault:
\* normally or by an exception, and without deleting a freed allocation.
C8_Claim ==
  [][ /\ last'.op \in MoveOps
           => /\ vtype'[last'.src] = vtype[last'.src]
              /\ which'[last'.src] = which[last'.src]
              /\ outcome' = "ok"
      /\ ( /\ last.op \in MoveOps
           /\ last'.dst = last.src
           /\ last'.op \in ReassignOps \cup {"v_dtor"}
           /\ last'.src # 0 =>
                pierce_recursive_wrapper(last'.src, "lvalue") # {} )
         => /\ outcome' \in {"ok", "throw"}
            /\ ~dfree'
    ]_vars

\* the formatter's int branch output read back: "[", an optional sign and
\* decimal digits, "]"
DigitVal(ch) == CHOOSE d \in 0..9 : Digits[d + 1] = ch

RECURSIVE parse_nat(_)
parse_nat(str) ==
  IF str = << >> THEN 0
  ELSE 10 * parse_nat(SubSeq(str, 1, Len(str) - 1)) + DigitVal(str[Len(str)])

parse_bracketed(out) ==
  LET inner == SubSeq(out, 2, Len(out) - 1)
  IN  IF Head(inner) = "-" THEN 0 - parse_nat(Tail(inner))
      ELSE parse_nat(inner)

\* in every state, applying the formatter to a container whose active
\* member can be read, however the container is passed, runs the one
\* branch the discriminant selects, on the stored value
C9_Dispatch ==
  \A c \in Variants :
     ( Exists(c) /\ pierce_recursive_wrapper(c, "lvalue") # {} ) =>
       \A cat \in ValueCats :
          /\ Cardinality(apply_visitor(c, cat)) = 1
          /\ \A r \in apply_visitor(c, cat) :
               IF which[c] = 0
               THEN /\ r.branch = "int"
                    /\ Len(r.out) >= 3
                    /\ Head(r.out) = "[" /\ r.out[Len(r.out)] = "]"
                    /\ {<<parse_bracketed(r.out)>>} = v_get(c, IntT)
               ELSE /\ r.branch = "string"
                    /\ {<<r.out>>} = v_get(c, StringT)

=============================================================================
